---- MODULE Spec2Model ----
(***************************************************************************)
(* Model of Nuake's Engine (src/Nuake/Engine.cpp): the game-state machine, *)
(* the per-frame Tick with its queued scene switch, subsystem pass and     *)
(* fixed-update drain loop, and the scripted-subsystem reload.             *)
(*                                                                         *)
(* Time is counted in integer units of half a fixed-update period, so that *)
(* fixedUpdateRate (1/90 s in the source) is 2 units.  Every operation     *)
(* records the calls it makes on its collaborators, in order, in `calls`,  *)
(* the values it assigns to gameState in `stateLog`, and its name,         *)
(* arguments and return value in `op`.                                     *)
(***************************************************************************)
EXTENDS Integers, Sequences, FiniteSets, TLC

\* ---------------------------------------------------------------- bounds
MaxClock == 5
MaxScenes == 2
MaxTypes == 2

\* The longest hook history: calls of one hook on one scene.
MaxHookCalls == 3

\* ------------------------------------------------------------- constants
fixedUpdateRate == 2

NoScene == 0

Scenes == 1..MaxScenes

GameStates == {"Stopped", "Loading", "Playing"}

TimeScales == {0, 1}

\* The scene files of the file system: one path names no file, one names a
\* well-formed scene file.  The empty path is what QueueSceneSwitch("") stores.
MissingPath == "missing.scene"
ValidPath == "valid.scene"
Paths == {"", MissingPath, ValidPath}

FileExists(path) == path = ValidPath

\* The types a game assembly may define: name, whether the type is a subclass
\* of Nuake.Net.EngineSubsystem, and what CanEverTick() answers on an instance.
AssemblyTypes ==
    { [name |-> "Game.TickingSubsystem", isSubsystem |-> TRUE, canTick |-> TRUE],
      [name |-> "Game.PassiveSubsystem", isSubsystem |-> TRUE, canTick |-> FALSE],
      [name |-> "Game.Player", isSubsystem |-> FALSE, canTick |-> FALSE] }

\* An assembly lists each of its types once, in enumeration order.
SeqsNoRepeat(S, n) ==
    { s \in UNION { [1..k -> S] : k \in 0..n } :
        \A i, j \in 1..Len(s) : i # j => s[i] # s[j] }

Assemblies == SeqsNoRepeat(AssemblyTypes, MaxTypes)

VARIABLES
    gameState,              \* Engine::gameState
    clock,                  \* what glfwGetTime() returns now
    lastFrameTime,          \* Engine::lastFrameTime
    fixedUpdateDifference,  \* Engine::fixedUpdateDifference
    timeScale,              \* Engine::timeScale
    queuedScene,            \* Engine::queuedScene
    currentScene,           \* currentWindow->GetScene()
    subsystems,             \* Engine::subsystems
    scriptedSubsystemMap,   \* Engine::scriptedSubsystemMap
    faulted,                \* the process dereferenced a null scene
    enteredSinceExit,       \* history: EnterPlayMode was called, and
                            \* ExitPlayMode has not been called since
    reloadLog,              \* what the last operation, if a reload, enumerated
                            \* and what each Initialize() call could observe
    op,                     \* the last operation, its arguments and result
    calls,                  \* the calls the last operation made, in order
    stateLog,               \* the values the last operation gave gameState
    lookup,                 \* the last GetScriptedSubsystem call and its result
    pass,                   \* the position of the Tick in progress, if any
    hookCount               \* history: OnInit and OnExit calls so far, per scene

vars == <<gameState, clock, lastFrameTime, fixedUpdateDifference,
          timeScale, queuedScene, currentScene, subsystems,
          scriptedSubsystemMap, faulted, enteredSinceExit, reloadLog, op,
          calls, stateLog, lookup, pass, hookCount>>

Ev(call, arg, dt) == [call |-> call, arg |-> arg, dt |-> dt]

Op(name, path, scene, ret) ==
    [name |-> name, path |-> path, scene |-> scene, ret |-> ret]

EmptyMap == [n \in {} |-> 0]

NullSubsystem == [type |-> "", id |-> -1, canTick |-> FALSE, age |-> 0]

\* The reload log of an operation that enumerated no assembly.
NoReload == [honoured |-> FALSE, cleared |-> 0, types |-> <<>>, inits |-> <<>>]

\* No GetScriptedSubsystem call was made.
NoLookup == [subsystemId |-> -1, subsystemName |-> "", result |-> NullSubsystem]

\* No Tick is in progress.
NoPass == [pos |-> 0, scaledTimeStep |-> 0, drained |-> 0, stale |-> FALSE]

\* No hook was called.
NoHooks == [s \in Scenes |-> [OnInit |-> 0, OnExit |-> 0]]

IsPlayMode == gameState = "Playing"

Init ==
    /\ gameState = "Stopped"
    /\ clock = 0
    /\ lastFrameTime = 0
    /\ fixedUpdateDifference = 0
    /\ timeScale = 1
    /\ queuedScene = ""
    /\ currentScene = NoScene
    /\ subsystems = <<>>
    /\ scriptedSubsystemMap = EmptyMap
    /\ faulted = FALSE
    /\ enteredSinceExit = FALSE
    /\ reloadLog = NoReload
    /\ op = Op("Init", "", NoScene, TRUE)
    /\ calls = <<>>
    /\ stateLog = <<>>
    /\ lookup = NoLookup
    /\ pass = NoPass
    /\ hookCount = NoHooks

\* ------------------------------------------------------- EnterPlayMode
\* Mutant: the guard forgets the Loading state.
AlreadyInPlayModePlayingOnly == gameState = "Playing"

\* The guard of line 150: play mode is already entered, or being entered.
AlreadyInPlayMode == gameState = "Playing" \/ gameState = "Loading"

\* Mutant: play mode is entered without passing through Loading.
EnterStatesSkipLoading(initOk) ==
    IF initOk THEN <<"Playing">> ELSE <<"Loading">>

\* Mutant: a failed OnInit rolls the state back to Stopped.
EnterStatesRollback(initOk) ==
    IF initOk THEN <<"Loading", "Playing">> ELSE <<"Loading", "Stopped">>

\* The values lines 156-162 assign to gameState, in order.
EnterStates(initOk) ==
    IF initOk THEN <<"Loading", "Playing">> ELSE <<"Loading">>

\* The calls of lines 158-167 on scene `scene`, whose OnInit answers initOk.
EnterCalls(scene, initOk) ==
    <<Ev("ReInit", 0, 0), Ev("OnInit", scene, 0)>>
        \o (IF initOk THEN <<>> ELSE <<Ev("OnExit", scene, 0)>>)

EnterPlayMode(initOk) ==
    /\ ~faulted
    /\ reloadLog' = NoReload
    /\ enteredSinceExit' = TRUE
    /\ lastFrameTime' = clock
    /\ IF AlreadyInPlayMode
       THEN /\ op' = Op("EnterPlayMode", "", currentScene, TRUE)
            /\ calls' = <<>>
            /\ stateLog' = <<>>
            /\ UNCHANGED <<gameState, faulted>>
       ELSE IF currentScene = NoScene
       THEN \* GetCurrentScene() is null at line 160: the call on it ends the process
            /\ op' = Op("EnterPlayMode", "", currentScene, TRUE)
            /\ calls' = <<Ev("ReInit", 0, 0)>>
            /\ stateLog' = <<"Loading">>
            /\ gameState' = "Loading"
            /\ faulted' = TRUE
       ELSE /\ op' = Op("EnterPlayMode", "", currentScene, initOk)
            /\ calls' = EnterCalls(currentScene, initOk)
            /\ stateLog' = EnterStates(initOk)
            /\ gameState' = stateLog'[Len(stateLog')]
            /\ UNCHANGED faulted
    /\ UNCHANGED <<clock, fixedUpdateDifference, timeScale,
                   queuedScene, currentScene, subsystems, scriptedSubsystemMap>>

\* -------------------------------------------------------- ExitPlayMode
\* Mutant: only a Playing engine is stopped.
NotStoppedPlayingOnly == gameState = "Playing"

\* The guard of line 174.
NotStopped == gameState # "Stopped"

ExitPlayMode ==
    /\ ~faulted
    /\ reloadLog' = NoReload
    /\ enteredSinceExit' = FALSE
    /\ op' = Op("ExitPlayMode", "", currentScene, TRUE)
    /\ IF NotStopped
       THEN /\ calls' = <<Ev("OnExit", currentScene, 0), Ev("ShowMouse", 0, 0)>>
            /\ stateLog' = <<"Stopped">>
            /\ gameState' = "Stopped"
       ELSE /\ calls' = <<>>
            /\ stateLog' = <<>>
            /\ UNCHANGED gameState
    /\ UNCHANGED <<clock, lastFrameTime, fixedUpdateDifference,
                   timeScale, queuedScene, currentScene, subsystems,
                   scriptedSubsystemMap, faulted>>

\* ---------------------------------------------------- QueueSceneSwitch
\* Mutant: queueing is refused in Stopped only.
QueueRefusedStoppedOnly == gameState = "Stopped"

\* The guard of line 229.
QueueRefused == ~IsPlayMode

QueueSceneSwitch(scenePath) ==
    /\ ~faulted
    /\ reloadLog' = NoReload
    /\ IF QueueRefused
       THEN /\ op' = Op("QueueSceneSwitch", scenePath, NoScene, FALSE)
            /\ UNCHANGED queuedScene
       ELSE /\ op' = Op("QueueSceneSwitch", scenePath, NoScene, TRUE)
            /\ queuedScene' = scenePath
    /\ calls' = <<>>
    /\ stateLog' = <<>>
    /\ UNCHANGED <<gameState, clock, lastFrameTime,
                   fixedUpdateDifference, timeScale, currentScene, subsystems,
                   scriptedSubsystemMap, faulted, enteredSinceExit>>

\* ----------------------------------------------------- SetCurrentScene
\* Window::SetScene: the scene the window holds after the call.
WindowSetScene(scene) == scene

\* Line 43: whether Engine::Init subscribes Engine::OnWindowSetScene to the
\* window's set-scene event.  The AddStatic call is commented out.
OnWindowSetSceneRegistered == FALSE

\* Lines 262-271: the broadcast of Engine::OnWindowSetScene.  An
\* OnScenePreDestroy call carries the subsystem's index in `arg` and the old
\* scene in `dt`.  (Lines 275-279 subscribe the engine to the new scene's
\* pre/post-initialize events.)
OnWindowSetScene(oldScene, newScene) ==
    LET live == SelectSeq([i \in 1..Len(subsystems) |-> i],
                          LAMBDA i : subsystems[i] # NullSubsystem)
    IN  [k \in 1..Len(live) |-> Ev("OnScenePreDestroy", live[k] - 1, oldScene)]

\* Window::SetScene: the window notifies the subscribers of its set-scene
\* event of the old and the new scene, then holds the new scene.
WindowSetSceneCalls(oldScene, newScene) ==
    (IF OnWindowSetSceneRegistered THEN OnWindowSetScene(oldScene, newScene)
     ELSE <<>>)
        \o <<Ev("SetScene", newScene, 0)>>

SetCurrentScene(scene) ==
    /\ ~faulted
    /\ reloadLog' = NoReload
    /\ op' = Op("SetCurrentScene", "", scene, TRUE)
    /\ currentScene' = WindowSetScene(scene)
    /\ calls' = WindowSetSceneCalls(currentScene, scene)
    /\ stateLog' = <<>>
    /\ UNCHANGED <<gameState, clock, lastFrameTime,
                   fixedUpdateDifference, timeScale, queuedScene, subsystems,
                   scriptedSubsystemMap, faulted, enteredSinceExit>>

\* -------------------------------------------------------- SetTimeScale
SetTimeScale(scale) ==
    /\ ~faulted
    /\ reloadLog' = NoReload
    /\ op' = Op("SetTimeScale", "", NoScene, TRUE)
    /\ timeScale' = scale
    /\ calls' = <<>>
    /\ stateLog' = <<>>
    /\ UNCHANGED <<gameState, clock, lastFrameTime,
                   fixedUpdateDifference, queuedScene, currentScene,
                   subsystems, scriptedSubsystemMap, faulted, enteredSinceExit>>

\* -------------------------------------------------------------- clock
\* glfwGetTime() is monotonic: the wall clock advances between operations.
Elapse ==
    /\ ~faulted
    /\ reloadLog' = NoReload
    /\ clock < MaxClock
    /\ clock' = clock + 1
    /\ op' = Op("Elapse", "", NoScene, TRUE)
    /\ calls' = <<>>
    /\ stateLog' = <<>>
    /\ UNCHANGED <<gameState, lastFrameTime, fixedUpdateDifference,
                   timeScale, queuedScene, currentScene, subsystems,
                   scriptedSubsystemMap, faulted, enteredSinceExit>>

\* --------------------------------------------------------------- Tick
\* Mutant: the pass ticks every non-null entry, whatever CanEverTick() says.
RECURSIVE SubsystemTicksAll(_, _, _)
SubsystemTicksAll(subs, i, dt) ==
    IF i > Len(subs) THEN <<>>
    ELSE (IF subs[i] = NullSubsystem THEN <<>>
          ELSE <<Ev("SubsystemTick", i - 1, dt)>>)
         \o SubsystemTicksAll(subs, i + 1, dt)

\* Lines 109-115: the body of the loop on entry i of `subs`.
SubsystemTickAt(subs, i, dt) ==
    IF subs[i] = NullSubsystem THEN <<>>
    ELSE IF subs[i].canTick THEN <<Ev("SubsystemTick", i - 1, dt)>>
    ELSE <<>>

\* Lines 107-116: the Tick calls of the pass over entries i..Len(subs).
RECURSIVE SubsystemTicks(_, _, _)
SubsystemTicks(subs, i, dt) ==
    IF i > Len(subs) THEN <<>>
    ELSE SubsystemTickAt(subs, i, dt) \o SubsystemTicks(subs, i + 1, dt)

\* Mutant: the loop stops one iteration early on an exact multiple.
DrainContinuesStrict(difference) == difference > fixedUpdateRate

\* The condition of the while loop of line 133.
DrainContinues(difference) == difference >= fixedUpdateRate

\* Lines 133-138: the loop run on `difference` after n iterations.
RECURSIVE Drain(_, _)
Drain(difference, n) ==
    IF DrainContinues(difference)
    THEN Drain(difference - fixedUpdateRate, n + 1)
    ELSE [difference |-> difference, n |-> n]

\* Mutant: the switch does not check that the file exists.
SwitchesSceneNoFileCheck == IsPlayMode /\ queuedScene # ""

\* Lines 77-99: whether this Tick performs the queued switch.
SwitchesScene == IsPlayMode /\ queuedScene # "" /\ FileExists(queuedScene)

\* Mutant: the incoming scene is initialised before physics is reset.
SwitchCallsInitFirst(old, new) ==
    <<Ev("OnExit", old, 0), Ev("SetScene", new, 0), Ev("OnInit", new, 0),
      Ev("ReInit", 0, 0)>>

\* Lines 87-94: the calls of the switch from scene `old` to scene `new`.
SwitchCalls(old, new) ==
    <<Ev("OnExit", old, 0)>>
        \o WindowSetSceneCalls(old, new)
        \o <<Ev("ReInit", 0, 0), Ev("OnInit", new, 0)>>

\* Lines 120-142: the calls of the scene part of a Tick.
SceneCalls(scene, scaledTimeStep, fixedUpdates) ==
    <<Ev("WindowUpdate", 0, scaledTimeStep)>>
        \o (IF ~IsPlayMode THEN <<Ev("EditorUpdate", scene, scaledTimeStep)>>
            ELSE <<>>)
        \o [i \in 1..fixedUpdates |->
               Ev("FixedUpdate", 0, fixedUpdateRate * timeScale)]
        \o <<Ev("InputUpdate", 0, 0), Ev("AudioUpdate", 0, 0)>>

\* Mutant: the subsystems and the scene are given the unscaled step.
UnscaledTimeStep(timeStep) == timeStep

\* Line 102.
ScaledTimeStep(timeStep) == timeStep * timeScale

\* nextScene is the object Scene::New() returns at line 79.  Engine::time and
\* Engine::timeStep are assigned at lines 71-72 before any use, so no value of
\* theirs passes from one operation to the next: they are local here.
TickWith(nextScene) ==
    /\ ~faulted
    /\ reloadLog' = NoReload
    /\ LET time == clock
           timeStep == time - lastFrameTime
           scene == IF SwitchesScene THEN WindowSetScene(nextScene)
                    ELSE currentScene
           scaledTimeStep == ScaledTimeStep(timeStep)
           drained == Drain(fixedUpdateDifference + timeStep, 0)
       IN  /\ lastFrameTime' = time
           /\ currentScene' = scene
           /\ queuedScene' = IF SwitchesScene THEN "" ELSE queuedScene
           /\ fixedUpdateDifference' =
                  IF scene # NoScene THEN drained.difference
                  ELSE fixedUpdateDifference
           /\ calls' =
                  <<Ev("JobSystemUpdate", 0, 0)>>
                  \o (IF SwitchesScene THEN SwitchCalls(currentScene, nextScene)
                      ELSE <<>>)
                  \o (IF IsPlayMode
                      THEN SubsystemTicks(subsystems, 1, scaledTimeStep)
                      ELSE <<>>)
                  \o (IF scene # NoScene
                      THEN SceneCalls(scene, scaledTimeStep, drained.n)
                      ELSE <<>>)
           /\ op' = Op("Tick", queuedScene, currentScene, SwitchesScene)
    /\ stateLog' = <<>>
    /\ UNCHANGED <<gameState, clock, timeScale, subsystems,
                   scriptedSubsystemMap, faulted, enteredSinceExit>>

\* Scene::New() returns an object other than the scene in use; the object is
\* observable only when the switch installs it.
Tick ==
    IF SwitchesScene
    THEN \E nextScene \in Scenes \ {currentScene} : TickWith(nextScene)
    ELSE TickWith(NoScene)

\* ----------------------------------------------- GetScriptedSubsystem
\* Line 255 compares the int subsystemId with the unsigned subsystems.size():
\* the int is converted to size_t, so a negative id becomes id + 2^64.  TLC's
\* integers end at 2^31 - 1; 2^30 stands for 2^64 here, which gives the same
\* comparisons for every id and list length of the model.
AsSizeT(subsystemId) ==
    IF subsystemId < 0 THEN subsystemId + 2^30 ELSE subsystemId

\* Lines 253-260: what GetScriptedSubsystem(subsystemId) returns on `subs`.
LookupIndex(subs, subsystemId) ==
    IF AsSizeT(subsystemId) >= Len(subs) THEN NullSubsystem
    ELSE subs[subsystemId + 1]

\* Mutant: operator[] is used with no contains() test before it, and inserts
\* a null handle under a name the map does not hold.
LookupNameInserting(map, subsystemName) ==
    IF subsystemName \in DOMAIN map
    THEN [result |-> map[subsystemName], map |-> map]
    ELSE [result |-> NullSubsystem,
          map |-> [k \in DOMAIN map \cup {subsystemName} |->
                      IF k = subsystemName THEN NullSubsystem ELSE map[k]]]

\* Lines 244-251: what GetScriptedSubsystem(subsystemName) returns on `map`,
\* and the map it leaves.  operator[] of line 248 is reached only with a name
\* the map holds, so it inserts nothing.
LookupName(map, subsystemName) ==
    IF subsystemName \in DOMAIN map
    THEN [result |-> map[subsystemName], map |-> map]
    ELSE [result |-> NullSubsystem, map |-> map]

\* The ids and the names the model looks up: every index of the longest list,
\* the index one past it, the one after, and a negative one; the name of every
\* type of the assembly and a name no assembly holds.
LookupIds == -1..(MaxTypes + 1)

LookupNames == {t.name : t \in AssemblyTypes} \cup {"Game.Unknown"}

GetScriptedSubsystemById(subsystemId) ==
    /\ ~faulted
    /\ reloadLog' = NoReload
    /\ lookup' = [subsystemId |-> subsystemId, subsystemName |-> "",
                  result |-> LookupIndex(subsystems, subsystemId)]
    /\ op' = Op("GetScriptedSubsystem(int)", "", NoScene,
                lookup'.result # NullSubsystem)
    /\ calls' = <<>>
    /\ stateLog' = <<>>
    /\ UNCHANGED <<gameState, clock, lastFrameTime, fixedUpdateDifference,
                   timeScale, queuedScene, currentScene, subsystems,
                   scriptedSubsystemMap, faulted, enteredSinceExit>>

GetScriptedSubsystemByName(subsystemName) ==
    /\ ~faulted
    /\ reloadLog' = NoReload
    /\ LET found == LookupName(scriptedSubsystemMap, subsystemName)
       IN  /\ lookup' = [subsystemId |-> -1, subsystemName |-> subsystemName,
                         result |-> found.result]
           /\ scriptedSubsystemMap' = found.map
    /\ op' = Op("GetScriptedSubsystem(string)", "", NoScene,
                lookup'.result # NullSubsystem)
    /\ calls' = <<>>
    /\ stateLog' = <<>>
    /\ UNCHANGED <<gameState, clock, lastFrameTime, fixedUpdateDifference,
                   timeScale, queuedScene, currentScene, subsystems, faulted,
                   enteredSinceExit>>

\* ------------------------------- OnScriptingEngineGameAssemblyLoaded
MapPut(map, key, value) ==
    [k \in DOMAIN map \cup {key} |-> IF k = key THEN value ELSE map[k]]

\* The handles a list and a map hold.
Handles(subs, map) ==
    {subs[i] : i \in DOMAIN subs} \cup {map[k] : k \in DOMAIN map}

\* Object identity.  A handle names its object by type, index and age: the
\* number of reloads the object has survived in the engine's containers.
\* type->CreateInstance() and CreateRef (lines 309, 311) return new objects
\* (age 0); whatever a reload leaves in the list or the map is one reload
\* older, and so is none of the new objects.
Aged(handle) == [handle EXCEPT !.age = @ + 1]

AgedList(subs) == [i \in DOMAIN subs |-> Aged(subs[i])]

AgedMap(map) == [k \in DOMAIN map |-> Aged(map[k])]

\* Mutant: the index is taken after the insertion.
NextSubsystemIdAfterInsert(subs) == Len(subs) + 1

\* Line 310: the EngineSubsystemID given to the next instance.
NextSubsystemId(subs) == Len(subs)

\* What Initialize() on `handle` can observe of the list and the map.
InitializeSnapshot(handle, subs, map) ==
    [instance |-> handle,
     listLen |-> Len(subs),
     listed |-> handle.id + 1 \in DOMAIN subs /\ subs[handle.id + 1] = handle,
     registered |-> handle.type \in DOMAIN map /\ map[handle.type] = handle]

\* Mutant: Initialize() runs before the instance is stored and registered.
LoadTypeInitFirst(type, acc) ==
    LET subsystemScript ==
            [type |-> type.name, id |-> NextSubsystemId(acc.subsystems),
             canTick |-> type.canTick, age |-> 0]
        listed == Append(acc.subsystems, subsystemScript)
        registered == MapPut(acc.map, type.name, subsystemScript)
    IN  [subsystems |-> listed,
         map |-> registered,
         calls |-> acc.calls \o
             <<Ev("CreateInstance", subsystemScript.id, 0),
               Ev("Initialize", subsystemScript.id, 0)>>,
         inits |-> Append(acc.inits,
             InitializeSnapshot(subsystemScript, acc.subsystems, acc.map))]

\* Lines 306-316: one eligible type is instantiated, given its index, stored,
\* registered and initialised, in this order.
LoadType(type, acc) ==
    LET subsystemScript ==
            [type |-> type.name, id |-> NextSubsystemId(acc.subsystems),
             canTick |-> type.canTick, age |-> 0]
        listed == Append(acc.subsystems, subsystemScript)
        registered == MapPut(acc.map, type.name, subsystemScript)
    IN  [subsystems |-> listed,
         map |-> registered,
         calls |-> acc.calls \o
             <<Ev("CreateInstance", subsystemScript.id, 0),
               Ev("Initialize", subsystemScript.id, 0)>>,
         inits |-> Append(acc.inits,
             InitializeSnapshot(subsystemScript, listed, registered))]

\* Lines 301-318: the loop over types[i..], from the list, map, calls and
\* Initialize() observations so far.
RECURSIVE LoadTypes(_, _, _)
LoadTypes(types, i, acc) ==
    IF i > Len(types) THEN acc
    ELSE IF types[i].isSubsystem
    THEN LoadTypes(types, i + 1, LoadType(types[i], acc))
    ELSE LoadTypes(types, i + 1, acc)

\* Mutant: the notification is honoured in Playing only.
ReloadHonouredPlayingOnly == IsPlayMode

\* The guard of line 288.
ReloadHonoured == IsPlayMode \/ gameState = "Loading"

\* Mutant: the list is not cleared.
SubsystemsNotCleared == subsystems

\* Mutant: the map is not cleared.
MapNotCleared == scriptedSubsystemMap

\* Line 293: the list after subsystems.clear().
ClearedSubsystems == <<>>

\* Line 294: the map after scriptedSubsystemMap.clear().
ClearedMap == EmptyMap

OnScriptingEngineGameAssemblyLoaded ==
    /\ ~faulted
    /\ IF ~ReloadHonoured
       THEN /\ op' = Op("AssemblyLoaded", "", NoScene, FALSE)
            /\ calls' = <<>>
            /\ reloadLog' = NoReload
            /\ UNCHANGED <<subsystems, scriptedSubsystemMap>>
       ELSE \E types \in Assemblies :  \* gameAssembly.GetTypes(), line 300
            LET loaded == LoadTypes(types, 1,
                              [subsystems |-> AgedList(ClearedSubsystems),
                               map |-> AgedMap(ClearedMap),
                               calls |-> <<>>, inits |-> <<>>])
            IN  /\ op' = Op("AssemblyLoaded", "", NoScene, TRUE)
                /\ subsystems' = loaded.subsystems
                /\ scriptedSubsystemMap' = loaded.map
                /\ calls' = loaded.calls
                /\ reloadLog' = [honoured |-> TRUE,
                                 cleared |-> Len(subsystems),
                                 types |-> types,
                                 inits |-> loaded.inits]
    /\ stateLog' = <<>>
    /\ UNCHANGED <<gameState, clock, lastFrameTime,
                   fixedUpdateDifference, timeScale, queuedScene,
                   currentScene, faulted, enteredSinceExit>>

\* ------------------------------------------------------ specification
\* The operations above are whole calls made between frames, with no lookup
\* among them; the hook history is kept by HooksSpec only.
Whole == UNCHANGED <<lookup, pass, hookCount>>

\* The operations of Engine.cpp.  None of them writes timeScale, which keeps
\* the value of line 39.
Next ==
    \/ (\E initOk \in BOOLEAN : EnterPlayMode(initOk)) /\ Whole
    \/ ExitPlayMode /\ Whole
    \/ (\E scenePath \in Paths : QueueSceneSwitch(scenePath)) /\ Whole
    \/ (\E scene \in Scenes : SetCurrentScene(scene)) /\ Whole
    \/ Tick /\ Whole
    \/ OnScriptingEngineGameAssemblyLoaded /\ Whole
    \/ Elapse /\ Whole

Spec == Init /\ [][Next]_vars

\* The frame loop under a time scale the application sets: the operations that
\* decide what a Tick hands to the subsystems and to the scene, with the
\* setter of timeScale.  No scene switch is queued.
ScaledNext ==
    \/ (\E scene \in Scenes : SetCurrentScene(scene)) /\ Whole
    \/ (\E initOk \in BOOLEAN : EnterPlayMode(initOk)) /\ Whole
    \/ ExitPlayMode /\ Whole
    \/ (\E scale \in TimeScales : SetTimeScale(scale)) /\ Whole
    \/ Tick /\ Whole
    \/ OnScriptingEngineGameAssemblyLoaded /\ Whole
    \/ Elapse /\ Whole

ScaledSpec == Init /\ [][ScaledNext]_vars

\* The operations that decide what the subsystem containers hold, and the two
\* lookups made between them.
LookupNext ==
    \/ (\E scene \in Scenes : SetCurrentScene(scene)) /\ Whole
    \/ (\E initOk \in BOOLEAN : EnterPlayMode(initOk)) /\ Whole
    \/ ExitPlayMode /\ Whole
    \/ OnScriptingEngineGameAssemblyLoaded /\ Whole
    \/ (\E subsystemId \in LookupIds : GetScriptedSubsystemById(subsystemId))
           /\ UNCHANGED <<pass, hookCount>>
    \/ (\E subsystemName \in LookupNames :
            GetScriptedSubsystemByName(subsystemName))
           /\ UNCHANGED <<pass, hookCount>>

LookupSpec == Init /\ [][LookupNext]_vars

\* ------------------------------------------- Tick, statement by statement
\* A Tick in play mode as the steps another execution of engine code can fall
\* between: lines 69-103, one iteration of the loop of lines 107-116 per step,
\* lines 120-142.  pass.pos is the entry the loop is at; Len(subsystems) + 1
\* when it has left the last one.
TickBegin ==
    /\ ~faulted
    /\ pass = NoPass
    /\ IsPlayMode
    /\ reloadLog' = NoReload
    /\ \E nextScene \in (IF SwitchesScene THEN Scenes \ {currentScene}
                         ELSE {NoScene}) :
         LET time == clock
             timeStep == time - lastFrameTime
             scene == IF SwitchesScene THEN WindowSetScene(nextScene)
                      ELSE currentScene
         IN  /\ lastFrameTime' = time
             /\ currentScene' = scene
             /\ queuedScene' = IF SwitchesScene THEN "" ELSE queuedScene
             /\ calls' =
                    <<Ev("JobSystemUpdate", 0, 0)>>
                    \o (IF SwitchesScene
                        THEN SwitchCalls(currentScene, nextScene) ELSE <<>>)
             /\ op' = Op("Tick", queuedScene, currentScene, SwitchesScene)
             /\ pass' = [pos |-> 1,
                         scaledTimeStep |-> ScaledTimeStep(timeStep),
                         drained |-> fixedUpdateDifference + timeStep,
                         stale |-> FALSE]
    /\ stateLog' = <<>>
    /\ UNCHANGED <<gameState, clock, timeScale, fixedUpdateDifference,
                   subsystems, scriptedSubsystemMap, faulted,
                   enteredSinceExit, lookup, hookCount>>

TickSubsystem ==
    /\ ~faulted
    /\ pass # NoPass
    /\ ~pass.stale
    /\ pass.pos <= Len(subsystems)
    /\ calls' = SubsystemTickAt(subsystems, pass.pos, pass.scaledTimeStep)
    /\ op' = Op("Tick:subsystem", "", currentScene, TRUE)
    /\ pass' = [pass EXCEPT !.pos = @ + 1]
    /\ reloadLog' = NoReload
    /\ stateLog' = <<>>
    /\ UNCHANGED <<gameState, clock, lastFrameTime, fixedUpdateDifference,
                   timeScale, queuedScene, currentScene, subsystems,
                   scriptedSubsystemMap, faulted, enteredSinceExit, lookup,
                   hookCount>>

\* The loop of line 107 goes on with iterators into a vector that was cleared
\* and refilled since they were taken: the behaviour is undefined.  The build
\* may fault, or go on at any entry of the list as it is now, or leave the loop.
TickSubsystemStale ==
    /\ ~faulted
    /\ pass # NoPass
    /\ pass.stale
    /\ \/ /\ faulted' = TRUE
          /\ UNCHANGED pass
       \/ /\ \E pos \in 1..(Len(subsystems) + 1) :
                 pass' = [pass EXCEPT !.pos = pos, !.stale = FALSE]
          /\ UNCHANGED faulted
    /\ op' = Op("Tick:subsystem", "", currentScene, FALSE)
    /\ calls' = <<>>
    /\ reloadLog' = NoReload
    /\ stateLog' = <<>>
    /\ UNCHANGED <<gameState, clock, lastFrameTime, fixedUpdateDifference,
                   timeScale, queuedScene, currentScene, subsystems,
                   scriptedSubsystemMap, enteredSinceExit, lookup, hookCount>>

TickEnd ==
    /\ ~faulted
    /\ pass # NoPass
    /\ ~pass.stale
    /\ pass.pos > Len(subsystems)
    /\ LET drained == Drain(pass.drained, 0)
       IN  /\ fixedUpdateDifference' =
                  IF currentScene # NoScene THEN drained.difference
                  ELSE fixedUpdateDifference
           /\ calls' =
                  IF currentScene # NoScene
                  THEN SceneCalls(currentScene, pass.scaledTimeStep, drained.n)
                  ELSE <<>>
    /\ op' = Op("Tick:scene", "", currentScene, TRUE)
    /\ pass' = NoPass
    /\ reloadLog' = NoReload
    /\ stateLog' = <<>>
    /\ UNCHANGED <<gameState, clock, lastFrameTime, timeScale, queuedScene,
                   currentScene, subsystems, scriptedSubsystemMap, faulted,
                   enteredSinceExit, lookup, hookCount>>

\* Line 45 subscribes the handler to the scripting engine's event; it runs when
\* the event is raised, whatever the frame loop is doing: its body (lines
\* 286-319) tests the game state only, and queues nothing.  Run while a pass is
\* at the list, it leaves the pass with iterators into the old contents.
AssemblyLoadedAtAnyPoint ==
    /\ OnScriptingEngineGameAssemblyLoaded
    /\ pass' = IF pass # NoPass /\ ReloadHonoured
               THEN [pass EXCEPT !.stale = TRUE] ELSE pass
    /\ UNCHANGED <<lookup, hookCount>>

\* The frame loop and its callers are one thread: no other operation of theirs
\* starts while a Tick is in progress.
BetweenTicks == pass = NoPass /\ Whole

PassNext ==
    \/ (\E scene \in Scenes : SetCurrentScene(scene)) /\ BetweenTicks
    \/ (\E initOk \in BOOLEAN : EnterPlayMode(initOk)) /\ BetweenTicks
    \/ ExitPlayMode /\ BetweenTicks
    \/ (\E scenePath \in Paths : QueueSceneSwitch(scenePath)) /\ BetweenTicks
    \/ Elapse /\ Whole
    \/ ~IsPlayMode /\ Tick /\ BetweenTicks
    \/ TickBegin
    \/ TickSubsystem
    \/ TickSubsystemStale
    \/ TickEnd
    \/ AssemblyLoadedAtAnyPoint

PassSpec == Init /\ [][PassNext]_vars

\* The hook history after an operation that made the calls `cs`.
CountHooks(count, cs) ==
    [s \in Scenes |->
        [OnInit |-> count[s].OnInit
                      + Len(SelectSeq(cs, LAMBDA e : e = Ev("OnInit", s, 0))),
         OnExit |-> count[s].OnExit
                      + Len(SelectSeq(cs, LAMBDA e : e = Ev("OnExit", s, 0)))]]

\* The operation is recorded in the hook history, which holds at most
\* MaxHookCalls calls of each hook on each scene.
Counted ==
    /\ hookCount' = CountHooks(hookCount, calls')
    /\ \A s \in Scenes : /\ hookCount'[s].OnInit <= MaxHookCalls
                         /\ hookCount'[s].OnExit <= MaxHookCalls
    /\ UNCHANGED <<lookup, pass>>

\* The operations that run a scene's OnInit or OnExit, or decide which scene
\* they run on.
HooksNext ==
    \/ (\E initOk \in BOOLEAN : EnterPlayMode(initOk)) /\ Counted
    \/ ExitPlayMode /\ Counted
    \/ (\E scene \in Scenes : SetCurrentScene(scene)) /\ Counted
    \/ (\E scenePath \in Paths : QueueSceneSwitch(scenePath)) /\ Counted
    \/ Tick /\ Counted

HooksSpec == Init /\ [][HooksNext]_vars

\* ============================================================= claims
\* The calls of `cs` whose name is in `names`, in order.
CallsOf(cs, names) == SelectSeq(cs, LAMBDA e : e.call \in names)

\* The calls of `cs` named `call` with argument `arg`.
CallsOn(cs, call, arg) ==
    SelectSeq(cs, LAMBDA e : e.call = call /\ e.arg = arg)

\* The engine's own fields (the clock belongs to the platform).
EngineState ==
    <<gameState, lastFrameTime, fixedUpdateDifference, timeScale, queuedScene,
      currentScene, subsystems, scriptedSubsystemMap>>

AllowedTransitions ==
    { <<"Stopped", "Loading">>, <<"Loading", "Playing">>,
      <<"Playing", "Stopped">>, <<"Loading", "Stopped">> }

\* C1: every change of gameState, the intermediate values an operation
\* assigns included, is Stopped->Loading, Loading->Playing, Playing->Stopped
\* or Loading->Stopped, and gameState changes only by such an assignment.
C1_TransitionsFollowGraph ==
    [][LET chain == <<gameState>> \o stateLog'
       IN  /\ gameState' = chain[Len(chain)]
           /\ \A i \in 1..(Len(chain) - 1) :
                  chain[i] # chain[i + 1]
                      => <<chain[i], chain[i + 1]>> \in AllowedTransitions]_vars

\* C1 witness: an EnterPlayMode that went Stopped -> Loading -> Playing.
C1_Witness ==
    /\ op.name = "EnterPlayMode"
    /\ stateLog = <<"Loading", "Playing">>
    /\ gameState = "Playing"

\* C2: an EnterPlayMode called after an earlier EnterPlayMode, with no
\* ExitPlayMode in between, invokes neither OnInit nor a physics
\* re-initialisation; and no EnterPlayMode invokes OnInit more than once.
C2_NoDoubleInit ==
    [][op'.name = "EnterPlayMode"
         => /\ Len(CallsOf(calls', {"OnInit"})) <= 1
            /\ enteredSinceExit
                 => CallsOf(calls', {"OnInit", "ReInit"}) = <<>>]_vars

\* C2 witness: a second EnterPlayMode after a first one whose OnInit failed.
C2_Witness ==
    /\ op.name = "EnterPlayMode"
    /\ enteredSinceExit
    /\ gameState = "Loading"
    /\ calls = <<>>
    /\ currentScene # NoScene

\* C3 (as stated): EnterPlayMode called while Playing or Loading changes no
\* engine state: gameState, lastFrameTime, the accumulator, the queued path,
\* the current scene and the subsystem list are as before the call.
C3_ReenterChangesNothing ==
    [][op'.name = "EnterPlayMode" /\ gameState \in {"Playing", "Loading"}
         => UNCHANGED <<gameState, lastFrameTime, fixedUpdateDifference,
                        queuedScene, currentScene, subsystems>>]_vars

\* C4: EnterPlayMode called in Stopped on a scene ends in Playing exactly
\* when OnInit returns true; when it returns false the call re-initialises
\* physics, then calls OnInit, then OnExit on that scene exactly once, and
\* returns in Loading.
C4_EnterOutcome ==
    [][op'.name = "EnterPlayMode" /\ gameState = "Stopped"
                                  /\ currentScene # NoScene
         => /\ (gameState' = "Playing") <=> op'.ret
            /\ calls'[1] = Ev("ReInit", 0, 0)
            /\ calls'[2] = Ev("OnInit", currentScene, 0)
            /\ Len(CallsOf(calls', {"ReInit"})) = 1
            /\ ~op'.ret
                 => /\ gameState' = "Loading"
                    /\ Len(CallsOf(calls', {"OnExit"})) = 1
                    /\ Len(CallsOn(calls', "OnExit", currentScene)) = 1
            /\ op'.ret => CallsOf(calls', {"OnExit"}) = <<>>]_vars

\* C4 witness: an EnterPlayMode whose OnInit failed.
C4_Witness ==
    /\ op.name = "EnterPlayMode"
    /\ ~op.ret
    /\ gameState = "Loading"
    /\ calls = <<Ev("ReInit", 0, 0), Ev("OnInit", currentScene, 0),
                 Ev("OnExit", currentScene, 0)>>

\* C5: ExitPlayMode in Stopped calls no scene hook and changes nothing; in
\* Playing or Loading it calls OnExit on the current scene exactly once and
\* ends in Stopped.
C5_ExitOutcome ==
    [][op'.name = "ExitPlayMode"
         => IF gameState = "Stopped"
            THEN /\ CallsOf(calls', {"OnInit", "OnExit"}) = <<>>
                 /\ UNCHANGED EngineState
            ELSE /\ CallsOf(calls', {"OnInit", "OnExit"})
                        = <<Ev("OnExit", currentScene, 0)>>
                 /\ gameState' = "Stopped"]_vars

\* C5 witness: an ExitPlayMode that stopped the engine.
C5_Witness ==
    /\ op.name = "ExitPlayMode"
    /\ stateLog = <<"Stopped">>
    /\ calls[1] = Ev("OnExit", currentScene, 0)

\* C6: QueueSceneSwitch(path) in Stopped or Loading returns false and leaves
\* the queued path and all other engine state unchanged; in Playing it
\* returns true and the queued path is `path` afterwards.
C6_QueueOutcome ==
    [][op'.name = "QueueSceneSwitch"
         => IF gameState \in {"Stopped", "Loading"}
            THEN ~op'.ret /\ UNCHANGED EngineState
            ELSE /\ gameState = "Playing"
                 /\ op'.ret
                 /\ queuedScene' = op'.path]_vars

\* C6 witness: a path accepted and stored in Playing.
C6_Witness ==
    /\ op.name = "QueueSceneSwitch"
    /\ op.ret
    /\ op.path = ValidPath
    /\ queuedScene = ValidPath
    /\ gameState = "Playing"

SwitchHooks == {"OnExit", "SetScene", "ReInit", "OnInit"}

\* C7: a Tick in Playing whose queued path names no file leaves the queued
\* path unchanged and non-empty and the current scene unchanged, and calls
\* neither OnExit, nor a physics re-initialisation, nor OnInit.
C7_MissingFileRetained ==
    [][op'.name = "Tick" /\ gameState = "Playing" /\ queuedScene # ""
                         /\ ~FileExists(queuedScene)
         => /\ queuedScene' = queuedScene
            /\ queuedScene' # ""
            /\ currentScene' = currentScene
            /\ CallsOf(calls', SwitchHooks) = <<>>]_vars

\* C7 witness: a Tick in Playing that found the queued file missing.
C7_Witness ==
    /\ op.name = "Tick"
    /\ gameState = "Playing"
    /\ op.path = MissingPath
    /\ queuedScene = MissingPath
    /\ ~op.ret

\* C8: a Tick in Playing whose queued path names a scene file calls, in this
\* order and each once, OnExit on the outgoing scene, the installation of a
\* new scene, the physics re-initialisation and OnInit on the new scene, and
\* leaves the queue empty; a Tick that starts with an empty queue performs
\* no switch.
C8_QueuedSwitchSequence ==
    [][op'.name = "Tick"
         => /\ (gameState = "Playing" /\ queuedScene # ""
                                      /\ FileExists(queuedScene))
                 => /\ CallsOf(calls', SwitchHooks) =
                           <<Ev("OnExit", currentScene, 0),
                             Ev("SetScene", currentScene', 0),
                             Ev("ReInit", 0, 0),
                             Ev("OnInit", currentScene', 0)>>
                    /\ currentScene' # currentScene
                    /\ queuedScene' = ""
            /\ queuedScene = ""
                 => /\ CallsOf(calls', SwitchHooks) = <<>>
                    /\ currentScene' = currentScene
                    /\ queuedScene' = ""]_vars

\* C8 witness: a Tick that performed the queued switch.
C8_Witness ==
    /\ op.name = "Tick"
    /\ op.ret
    /\ op.path = ValidPath
    /\ queuedScene = ""
    /\ currentScene # op.scene
    /\ Len(CallsOf(calls, SwitchHooks)) = 4

C10_FixedUpdateDrain ==
    /\ [](fixedUpdateDifference \in 0..(fixedUpdateRate - 1))
    /\ [][op'.name = "Tick" /\ currentScene' # NoScene
                            /\ fixedUpdateDifference \in 0..(fixedUpdateRate - 1)
                            /\ clock - lastFrameTime >= 0
            => LET a == fixedUpdateDifference
                   t == clock - lastFrameTime
               IN  /\ Len(CallsOf(calls', {"FixedUpdate"}))
                          = (a + t) \div fixedUpdateRate
                   /\ fixedUpdateDifference' = (a + t) % fixedUpdateRate]_vars

\* C10 witness: a Tick with a = 0 and t = 2.5 * fixedUpdateRate: two
\* fixed-rate updates, and half a period left.
C10_Witness ==
    /\ op.name = "Tick"
    /\ timeScale = 1
    /\ CallsOf(calls, {"WindowUpdate"}) = <<Ev("WindowUpdate", 0, 5)>>
    /\ Len(CallsOf(calls, {"FixedUpdate"})) = 2
    /\ fixedUpdateDifference = 1

\* The eligible types of an assembly, in enumeration order.
Eligible(types) == SelectSeq(types, LAMBDA t : t.isSubsystem)

TypeNames == {t.name : t \in AssemblyTypes}

\* C11: an assembly-loaded notification in Stopped leaves the subsystem list
\* and the name map as they were and instantiates and initialises nothing; in
\* Loading or Playing it replaces both by one new instance per eligible type
\* of the assembly, in enumeration order.
C11_ReloadOnlyInSession ==
    [][op'.name = "AssemblyLoaded"
         => IF gameState = "Stopped"
            THEN /\ ~op'.ret
                 /\ UNCHANGED <<subsystems, scriptedSubsystemMap>>
                 /\ calls' = <<>>
            ELSE LET eligible == Eligible(reloadLog'.types)
                 IN  /\ op'.ret
                     /\ reloadLog'.honoured
                     /\ Len(subsystems') = Len(eligible)
                     /\ \A k \in 1..Len(eligible) :
                            /\ subsystems'[k].type = eligible[k].name
                            /\ subsystems'[k].age = 0
                            /\ scriptedSubsystemMap'[eligible[k].name]
                                   = subsystems'[k]
                     /\ DOMAIN scriptedSubsystemMap'
                            = {eligible[k].name : k \in 1..Len(eligible)}]_vars

\* C11 witness: a notification ignored in Stopped while the list holds the
\* subsystems of an earlier session.
C11_Witness ==
    /\ op.name = "AssemblyLoaded"
    /\ ~op.ret
    /\ gameState = "Stopped"
    /\ Len(subsystems) = 2
    /\ calls = <<>>

\* C13: after an honoured reload that follows an earlier one, no lookup by
\* name or by index returns an object the engine held before it: the list and
\* the map hold only instances this reload created, and a name the earlier
\* reload registered and this one did not discover is not found.
C13_ReloadReplacesAll ==
    [][op'.name = "AssemblyLoaded" /\ op'.ret
         => LET old == Handles(subsystems, scriptedSubsystemMap)
                created == {reloadLog'.inits[k].instance :
                               k \in DOMAIN reloadLog'.inits}
                byName == {LookupName(scriptedSubsystemMap', n).result :
                               n \in TypeNames}
                byIndex == {LookupIndex(subsystems', i) : i \in -1..MaxTypes}
                found == (byName \cup byIndex) \ {NullSubsystem}
            IN  /\ found \subseteq created
                /\ Handles(subsystems', scriptedSubsystemMap') = found
                /\ \A h \in old : Aged(h) \notin found
                /\ \A n \in DOMAIN scriptedSubsystemMap :
                       n \notin {h.type : h \in created}
                           => LookupName(scriptedSubsystemMap', n).result
                                  = NullSubsystem]_vars

\* C13 witness: a reload that dropped two subsystems and created one.
C13_Witness ==
    /\ op.name = "AssemblyLoaded"
    /\ reloadLog.honoured
    /\ reloadLog.cleared = 2
    /\ Len(subsystems) = 1
    /\ Cardinality(DOMAIN scriptedSubsystemMap) = 1

\* C14: every Tick sets lastFrameTime to the current clock reading; in a
\* Tick in Playing with timeScale = 0 every subsystem Tick receives delta 0.
C14_ClockAdvancesOncePerTick ==
    [][op'.name = "Tick"
         => /\ lastFrameTime' = clock
            /\ clock' = clock
            /\ (timeScale = 0 /\ gameState = "Playing")
                 => \A k \in DOMAIN calls' :
                        calls'[k].call = "SubsystemTick" => calls'[k].dt = 0]_vars

\* C14 witness: a Tick in Playing at timeScale 0, after time has passed (a
\* fixed-rate update ran), that ticked a subsystem with delta 0.
C14_Witness ==
    /\ op.name = "Tick"
    /\ gameState = "Playing"
    /\ timeScale = 0
    /\ lastFrameTime = clock
    /\ CallsOf(calls, {"SubsystemTick"}) # <<>>
    /\ CallsOf(calls, {"FixedUpdate"}) # <<>>

\* C18: when Initialize() runs on the k-th eligible type of a reload (k from
\* 0), the instance has EngineSubsystemID k, is stored at position k of the
\* list, whose length is k + 1, and is registered in the map under its type
\* name; Initialize() runs once per eligible type, in enumeration order.
C18_InitializeSeesRegistration ==
    reloadLog.honoured
        => LET eligible == Eligible(reloadLog.types)
           IN  /\ Len(reloadLog.inits) = Len(eligible)
               /\ \A k \in 1..Len(eligible) :
                      /\ reloadLog.inits[k].instance.type = eligible[k].name
                      /\ reloadLog.inits[k].instance.id = k - 1
                      /\ reloadLog.inits[k].listLen = k
                      /\ reloadLog.inits[k].listed
                      /\ reloadLog.inits[k].registered
               /\ CallsOf(calls, {"Initialize"})
                      = [k \in 1..Len(eligible) |-> Ev("Initialize", k - 1, 0)]

\* C18 witness: a reload that initialised two subsystems.
C18_Witness ==
    /\ reloadLog.honoured
    /\ Len(reloadLog.inits) = 2
    /\ Len(reloadLog.types) = 2

\* The positions in `cs` of the calls named `call`.
PositionsOf(cs, call) == {k \in DOMAIN cs : cs[k].call = call}

\* C15 (as stated): whenever a scene is installed, by SetCurrentScene or by
\* the queued switch of a Tick, every non-null subsystem of the list receives
\* OnScenePreDestroy(oldScene) exactly once, before the new scene is installed.
C15_PreDestroyBroadcast ==
    [][(op'.name = "SetCurrentScene" \/ (op'.name = "Tick" /\ op'.ret))
         => \A i \in 1..Len(subsystems) :
                subsystems[i] # NullSubsystem
                    => /\ Len(SelectSeq(calls', LAMBDA e :
                              e = Ev("OnScenePreDestroy", i - 1, currentScene)))
                           = 1
                       /\ \A k \in PositionsOf(calls', "OnScenePreDestroy") :
                          \A j \in PositionsOf(calls', "SetScene") : k < j]_vars

\* C16 (as stated): the number of fixed-rate updates of one Tick is bounded
\* by a cap that does not depend on the measured timeStep.  Such a cap holds
\* whatever the longest gap MaxClock between two Ticks is, so a Tick never
\* runs as many iterations as the longest gap holds periods.
C16_DrainIterationsCapped ==
    op.name = "Tick"
        => Len(CallsOf(calls, {"FixedUpdate"})) < MaxClock \div fixedUpdateRate

\* C19 (as stated): a non-empty queued scene path implies gameState = Playing.
C19_QueuedOnlyWhilePlaying ==
    queuedScene # "" => gameState = "Playing"

\* C12: in the state an honoured reload leaves, with N the number of eligible
\* types it enumerated, the lookup by index answers, for every i in 0..N-1,
\* the non-null handle at position i of the list, whose injected id is i, and
\* not-found for N, for every index above N and for a negative index; a
\* GetScriptedSubsystem(int) call returns what that lookup answers on the list
\* as it is, and never faults; a GetScriptedSubsystem(string) call for a name
\* that is not registered returns not-found and leaves the map without it.
C12_LookupContract ==
    [][/\ reloadLog'.honoured
            => LET N == Len(Eligible(reloadLog'.types))
               IN  \A i \in LookupIds :
                       LET h == LookupIndex(subsystems', i)
                       IN  IF 0 <= i /\ i < N
                           THEN /\ h # NullSubsystem
                                /\ h.id = i
                                /\ h = subsystems'[i + 1]
                           ELSE h = NullSubsystem
       /\ op'.name = "GetScriptedSubsystem(int)"
            => LET i == lookup'.subsystemId
                   h == lookup'.result
               IN  /\ ~faulted'
                   /\ IF 0 <= i /\ i < Len(subsystems)
                      THEN h # NullSubsystem /\ h.id = i /\ h = subsystems[i + 1]
                      ELSE h = NullSubsystem
                   /\ subsystems' = subsystems
       /\ (/\ op'.name = "GetScriptedSubsystem(string)"
           /\ lookup'.subsystemName \notin DOMAIN scriptedSubsystemMap)
            => /\ ~faulted'
               /\ lookup'.result = NullSubsystem
               /\ lookup'.subsystemName \notin DOMAIN scriptedSubsystemMap'
               /\ scriptedSubsystemMap' = scriptedSubsystemMap]_vars

\* A lookup of the last index of a list of two returned its handle, and lookups
\* of the index one past it, of a negative index and of an unregistered name
\* are possible in the same state.
C12_Witness ==
    /\ op.name = "GetScriptedSubsystem(int)"
    /\ Len(subsystems) = 2
    /\ lookup.subsystemId = 1
    /\ lookup.result # NullSubsystem
    /\ lookup.result.id = 1
    /\ "Game.Player" \notin DOMAIN scriptedSubsystemMap

\* C20 (as stated): on every scene, OnExit has been called at most as many
\* times as OnInit.
C20_ExitsWithinInits ==
    \A s \in Scenes : hookCount[s].OnExit <= hookCount[s].OnInit

\* C17 (as stated): an assembly-loaded notification never clears and rebuilds
\* the subsystem list while a Tick's pass has entries of that list left to
\* visit.
C17_ReloadAtFrameBoundary ==
    [][(op'.name = "AssemblyLoaded" /\ op'.ret)
         => ~(pass # NoPass /\ pass.pos <= Len(subsystems))]_vars

====
